---------------------------- MODULE Spec2Model ----------------------------
(***************************************************************************)
(* Model of tools/llama/build_dataset.py: the dataset-packing pipeline.   *)
(*                                                                         *)
(*   Spec          a run of main: the generator, the pool, the driver      *)
(*   SpecGroup     task_generator_yaml on one dataset row                  *)
(*   SpecTask      run_task on one task, member by member                  *)
(*   SpecStream    the frames of the output file, written and read back    *)
(*   SpecSanitize  the text cleaning of run_task (lines 88-101)            *)
(*                                                                         *)
(* The frame layout, the record's fields and the phonemizer are not among  *)
(* the source files; they follow the specification (sections 4.4, 6, 4.2). *)
(*                                                                         *)
(* Characters are their code points, strings are sequences of characters.  *)
(***************************************************************************)
EXTENDS Integers, Sequences, FiniteSets, Bags, TLC

VARIABLES
    sanPc,        \* position inside run_task's text handling
    sanSidecar,   \* TRUE: text read from the sidecar file, FALSE: manifest text
    sanText       \* the local variable `text`

VARIABLES
    grpPc,          \* position inside task_generator_yaml, for one dataset row
    grpTree,        \* the *.npy files under the row's root (the directory tree)
    parent_level,   \* row["group_parent_level"]: an int or a list of ints
    files,          \* the local list `files`
    grpIdx,         \* how many of `files` the grouping loop has handled
    grouped_files,  \* the defaultdict, as its items in insertion order
    grpYielded,     \* the (name, subset) pairs yielded so far, in order
    grpRuns         \* what each earlier run over the same tree yielded

VARIABLES
    tskPc,       \* position inside run_task: "loop", "returned", "raised"
    task,        \* the argument of run_task
    tskIdx,      \* how many members of `subset` the loop has handled
    languages,   \* the local variable `languages`
    sentences,   \* the local list `sentences`
    tskResult    \* what run_task returned: the packed record

VARIABLES
    dataset_fp,  \* the bytes of the output file
    strPc,       \* "writing", then "reading" (the file is read back), then "eof"
    strResults,  \* the records the driver has yet to receive and write
    strWhole,    \* the records whose frame was written whole, in write order
    rdPos,       \* the reader's position in the file, from 1
    rdRecords    \* the records the reader has yielded

VARIABLES
    pc,           \* main: "running", "done" (line 151 passed), "failed" (an exception left it)
    config,       \* the configuration: dataset rows, or the lines of the manifest
    num_workers,  \* --num-workers
    genRow,       \* the generator: how many rows (or the manifest) it has grouped
    genBuf,       \* the generator: the groups of the current row it has yet to yield
    feeding,      \* the pool still takes tasks from the generator
    emitted,      \* the groups the generator has yielded, in order
    inqueue,      \* the pool's queue of tasks no worker has taken
    running,      \* the tasks the workers are running
    outqueue      \* the completed results the driver has not taken, in completion order

sanVars == <<sanPc, sanSidecar, sanText>>
rdrVars == <<strPc, strResults, strWhole, rdPos, rdRecords>>
strVars == <<dataset_fp, rdrVars>>
runVars == <<pc, config, num_workers, genRow, genBuf, feeding, emitted, inqueue, running, outqueue>>
tskVars == <<tskPc, task, tskIdx, languages, sentences, tskResult>>
grpVars == <<grpPc, grpTree, parent_level, files, grpIdx, grouped_files, grpYielded, grpRuns>>

vars == <<sanVars, grpVars, tskVars, strVars, runVars>>

---------------------------------------------------------------------------
(* Bounds *)

MaxTextLen == 4
MaxLevel == 3
MaxRuns == 2
MaxMembers == 2
MaxLines == 3
MaxRecords == 2
MaxRows == 2
MaxWorkers == 3

---------------------------------------------------------------------------
(* Characters the code names *)

Space == 32
Newline == 10
LBrace == 123
RBrace == 125
LAngle == 60
RAngle == 62
Dash == 45

\* r"\s": the whitespace characters of the model's alphabet
IsSpace(c) == c \in {Space, Newline}

Min(S) == CHOOSE x \in S : \A y \in S : x <= y

RECURSIVE SeqsUpTo(_, _)
\* all sequences over S of length at most n
SeqsUpTo(S, n) ==
    IF n = 0 THEN {<<>>}
    ELSE LET shorter == SeqsUpTo(S, n - 1)
         IN  shorter \cup {Append(s, c) : s \in {t \in shorter : Len(t) = n - 1}, c \in S}

---------------------------------------------------------------------------
(* The parts of the state a specification does not use stay as they start *)

SanIdle == sanPc = "idle" /\ sanSidecar = FALSE /\ sanText = <<>>

TskIdle ==
    /\ tskPc = "idle"
    /\ task = <<>>
    /\ tskIdx = 0
    /\ languages = <<>>
    /\ sentences = <<>>
    /\ tskResult = <<>>

StrIdle ==
    /\ strPc = "idle"
    /\ strResults = <<>>
    /\ strWhole = <<>>
    /\ rdPos = 1
    /\ rdRecords = <<>>

RunIdle ==
    /\ pc = "idle"
    /\ config = <<>>
    /\ num_workers = 0
    /\ genRow = 0
    /\ genBuf = <<>>
    /\ feeding = FALSE
    /\ emitted = <<>>
    /\ inqueue = <<>>
    /\ running = {}
    /\ outqueue = <<>>

GrpIdle ==
    /\ grpPc = "idle"
    /\ grpTree = {}
    /\ parent_level = [isInt |-> TRUE, val |-> 1]
    /\ files = <<>>
    /\ grpIdx = 0
    /\ grouped_files = <<>>
    /\ grpYielded = <<>>
    /\ grpRuns = <<>>

---------------------------------------------------------------------------
(* Text cleaning: run_task lines 95-101 *)

\* str.strip(): drop leading and trailing whitespace
RECURSIVE LStrip(_)
LStrip(s) == IF s # <<>> /\ IsSpace(Head(s)) THEN LStrip(Tail(s)) ELSE s

RECURSIVE RStrip(_)
RStrip(s) ==
    IF s # <<>> /\ IsSpace(s[Len(s)]) THEN RStrip(SubSeq(s, 1, Len(s) - 1)) ELSE s

Strip(s) == RStrip(LStrip(s))

\* Where the lazy pattern  open .*? close  ends when tried at s[1] = open:
\* the first `close` after it, provided no newline lies between ("." does
\* not match a newline); 0 when the pattern does not match here.
MatchEnd(s, close) ==
    LET ends == {j \in 2..Len(s) :
                    /\ s[j] = close
                    /\ \A k \in 2..(j - 1) : s[k] # Newline}
    IN  IF ends = {} THEN 0 ELSE Min(ends)

\* re.sub(open .*? close, " ", s): leftmost, non-overlapping matches
RECURSIVE SubSpan(_, _, _)
SubSpan(s, open, close) ==
    IF s = <<>> THEN <<>>
    ELSE IF Head(s) = open /\ MatchEnd(s, close) > 0
         THEN <<Space>> \o SubSpan(SubSeq(s, MatchEnd(s, close) + 1, Len(s)), open, close)
         ELSE <<Head(s)>> \o SubSpan(Tail(s), open, close)

\* re.sub(r"\s+", " ", s)
RECURSIVE SubSpaces(_)
SubSpaces(s) ==
    IF s = <<>> THEN <<>>
    ELSE IF IsSpace(Head(s)) THEN <<Space>> \o SubSpaces(LStrip(s))
         ELSE <<Head(s)>> \o SubSpaces(Tail(s))

\* lines 99-101 in one piece, as run_task applies them
Clean(text) == SubSpaces(SubSpan(SubSpan(text, LBrace, RBrace), LAngle, RAngle))

---------------------------------------------------------------------------
(* Group discovery in tree mode: task_generator_yaml lines 35-59 *)

\* str < str: code points, lexicographically
StrLess(a, b) ==
    \E i \in 1..Len(b) :
        /\ \A k \in 1..(i - 1) : k <= Len(a) /\ a[k] = b[k]
        /\ (i > Len(a) \/ a[i] < b[i])

\* Path < Path: pathlib compares the tuples of path components
PathLess(p, q) ==
    \E i \in 1..Len(q) :
        /\ \A k \in 1..(i - 1) : k <= Len(p) /\ p[k] = q[k]
        /\ (i > Len(p) \/ StrLess(p[i], q[i]))

RECURSIVE Insort(_, _)
Insort(sorted, p) ==
    IF sorted = <<>> THEN <<p>>
    ELSE IF PathLess(p, Head(sorted)) THEN <<p>> \o sorted
         ELSE <<Head(sorted)>> \o Insort(Tail(sorted), p)

\* a sort that is left out
Unsorted(list) == list

\* line 40: sorted(files)
RECURSIVE Sorted(_)
Sorted(list) ==
    IF list = <<>> THEN <<>>
    ELSE Insort(Sorted(SubSeq(list, 1, Len(list) - 1)), list[Len(list)])

\* lines 35-36
LevelList(pl) == IF pl.isInt THEN <<pl.val>> ELSE pl.val

\* lines 44-48: the names of the directories above the file, nearest first.
\* A path is the sequence of its components, the file's own name last.
RECURSIVE AllParents(_)
AllParents(pointer) ==
    IF Len(pointer) <= 1 THEN <<>>
    ELSE <<pointer[Len(pointer) - 1]>> \o AllParents(SubSeq(pointer, 1, Len(pointer) - 1))

\* a Python list index: i in -len..len-1 is valid, anything else IndexError
PyIndexOK(list, i) == -Len(list) <= i /\ i < Len(list)
PyIndex(list, i) == IF i >= 0 THEN list[i + 1] ELSE list[Len(list) + i + 1]

\* lines 50-52 raise IndexError for this file
RaisesIndexError(file, levels) ==
    \E n \in 1..Len(levels) : ~PyIndexOK(AllParents(file), levels[n] - 1)

\* "-".join(ps)
RECURSIVE Join(_)
Join(ps) ==
    IF ps = <<>> THEN <<>>
    ELSE IF Len(ps) = 1 THEN ps[1]
         ELSE ps[1] \o <<Dash>> \o Join(Tail(ps))

\* lines 50-54
GroupKey(file, levels) ==
    Join([n \in 1..Len(levels) |-> PyIndex(AllParents(file), levels[n] - 1)])

\* line 55: grouped_files[p].append(file)
GroupAppend(grouped, p, file) ==
    IF \E g \in 1..Len(grouped) : grouped[g].name = p
    THEN [g \in 1..Len(grouped) |->
            IF grouped[g].name = p
            THEN [grouped[g] EXCEPT !.subset = Append(@, file)]
            ELSE grouped[g]]
    ELSE Append(grouped, [name |-> p, subset |-> <<file>>])

\* lines 42-55 for a whole row: the items of grouped_files, or the IndexError
\* of line 52
RECURSIVE GroupAll(_, _, _)
GroupAll(list, levels, grouped) ==
    IF list = <<>> THEN [raised |-> FALSE, items |-> grouped]
    ELSE IF RaisesIndexError(Head(list), levels) THEN [raised |-> TRUE, items |-> <<>>]
         ELSE GroupAll(Tail(list), levels,
                       GroupAppend(grouped, GroupKey(Head(list), levels), Head(list)))

---------------------------------------------------------------------------
(* SpecGroup: one dataset row of task_generator_yaml, run MaxRuns times *)

\* directory and file names: "r", "a", "c", "a-b", "b-c"; "d" .. "h"
PathUniverse ==
    { <<(<<114>>), <<97>>, <<98, Dash, 99>>, <<102>>>>,
      <<(<<114>>), <<97>>, <<98, Dash, 99>>, <<100>>>>,
      <<(<<114>>), <<97, Dash, 98>>, <<99>>, <<103>>>>,
      <<(<<114>>), <<97>>, <<99>>, <<104>>>>,
      <<(<<114>>), <<101>>>> }

LevelConfigs ==
    {[isInt |-> TRUE, val |-> n] : n \in 1..MaxLevel}
    \cup {[isInt |-> FALSE, val |-> l] : l \in SeqsUpTo(1..MaxLevel, 2) \ {<<>>}}

\* every order in which the file system may enumerate the set S
Enumerations(S) ==
    {l \in [1..Cardinality(S) -> S] : \A i, j \in 1..Cardinality(S) : l[i] = l[j] => i = j}

GrpInit ==
    /\ grpPc = "rglob"
    /\ grpTree \in SUBSET PathUniverse
    /\ parent_level \in LevelConfigs
    /\ files = <<>>
    /\ grpIdx = 0
    /\ grouped_files = <<>>
    /\ grpYielded = <<>>
    /\ grpRuns = <<>>
    /\ SanIdle /\ TskIdle /\ StrIdle /\ RunIdle /\ dataset_fp = <<>>

\* line 39: rglob enumerates the tree in an order the file system picks
GrpRglob ==
    /\ grpPc = "rglob"
    /\ files' \in Enumerations(grpTree)
    /\ grpPc' = "sort"
    /\ UNCHANGED <<grpTree, parent_level, grpIdx, grouped_files, grpYielded, grpRuns, sanVars, tskVars, strVars, runVars>>

\* line 40
GrpSort ==
    /\ grpPc = "sort"
    /\ files' = Sorted(files)
    /\ grpIdx' = 0
    /\ grouped_files' = <<>>
    /\ grpPc' = "group"
    /\ UNCHANGED <<grpTree, parent_level, grpYielded, grpRuns, sanVars, tskVars, strVars, runVars>>

\* lines 43-55, one file
GrpFile ==
    /\ grpPc = "group"
    /\ grpIdx < Len(files)
    /\ ~RaisesIndexError(files[grpIdx + 1], LevelList(parent_level))
    /\ grouped_files' = GroupAppend(grouped_files,
                                    GroupKey(files[grpIdx + 1], LevelList(parent_level)),
                                    files[grpIdx + 1])
    /\ grpIdx' = grpIdx + 1
    /\ UNCHANGED <<grpPc, grpTree, parent_level, files, grpYielded, grpRuns, sanVars, tskVars, strVars, runVars>>

\* line 52: the index is beyond the file's depth
GrpIndexError ==
    /\ grpPc = "group"
    /\ grpIdx < Len(files)
    /\ RaisesIndexError(files[grpIdx + 1], LevelList(parent_level))
    /\ grpPc' = "raised"
    /\ UNCHANGED <<grpTree, parent_level, files, grpIdx, grouped_files, grpYielded, grpRuns, sanVars, tskVars, strVars, runVars>>

\* lines 58-59: the next group, or the end of the row
GrpYield ==
    /\ grpPc = "group"
    /\ grpIdx = Len(files)
    /\ IF Len(grpYielded) < Len(grouped_files)
       THEN /\ grpYielded' = Append(grpYielded, grouped_files[Len(grpYielded) + 1])
            /\ grpPc' = grpPc
       ELSE /\ grpPc' = "done"
            /\ UNCHANGED grpYielded
    /\ UNCHANGED <<grpTree, parent_level, files, grpIdx, grouped_files, grpRuns, sanVars, tskVars, strVars, runVars>>

\* the same command run again over the same tree and configuration
GrpRerun ==
    /\ grpPc = "done"
    /\ Len(grpRuns) + 1 < MaxRuns
    /\ grpRuns' = Append(grpRuns, grpYielded)
    /\ grpPc' = "rglob"
    /\ files' = <<>>
    /\ grpIdx' = 0
    /\ grouped_files' = <<>>
    /\ grpYielded' = <<>>
    /\ UNCHANGED <<grpTree, parent_level, sanVars, tskVars, strVars, runVars>>

GrpNext == GrpRglob \/ GrpSort \/ GrpFile \/ GrpIndexError \/ GrpYield \/ GrpRerun

SpecGroup == GrpInit /\ [][GrpNext]_vars

\* the key the configuration gives a file: the names of the ancestors at the
\* configured positions (1 = the directory holding the file), joined by "-"
AncestorName(file, level) == file[Len(file) - level]
RECURSIVE KeyOf(_, _)
KeyOf(file, levels) ==
    IF Len(levels) = 1 THEN AncestorName(file, levels[1])
    ELSE AncestorName(file, levels[1]) \o <<Dash>> \o KeyOf(file, Tail(levels))

GroupsOf(file) == {g \in 1..Len(grpYielded) :
                      \E m \in 1..Len(grpYielded[g].subset) : grpYielded[g].subset[m] = file}

\* C8: once a row's groups are yielded, every feature file of the tree is in
\* exactly one group, once; the group's name is the "-" join of the file's
\* ancestor names at the configured 1-based positions, in configured order;
\* two files share a group exactly when their keys are equal; the members of
\* a group are in ascending path order (component-wise, as pathlib orders
\* paths); and every earlier run over the same tree yielded the same groups.
C8_GroupingPartition ==
    grpPc = "done" =>
        LET levels == LevelList(parent_level)
        IN  /\ \A f \in grpTree :
                /\ Cardinality(GroupsOf(f)) = 1
                /\ \A g \in GroupsOf(f) :
                    /\ grpYielded[g].name = KeyOf(f, levels)
                    /\ Cardinality({m \in 1..Len(grpYielded[g].subset) :
                                        grpYielded[g].subset[m] = f}) = 1
            /\ \A g \in 1..Len(grpYielded) :
                /\ \A m \in 1..Len(grpYielded[g].subset) : grpYielded[g].subset[m] \in grpTree
                /\ \A m \in 1..(Len(grpYielded[g].subset) - 1) :
                      PathLess(grpYielded[g].subset[m], grpYielded[g].subset[m + 1])
            /\ \A f1, f2 \in grpTree :
                (GroupsOf(f1) = GroupsOf(f2)) <=> (KeyOf(f1, levels) = KeyOf(f2, levels))
            /\ \A r \in 1..Len(grpRuns) : grpRuns[r] = grpYielded

\* a second run has ended with several groups, one of them holding two files
\* whose selected ancestor names differ and whose keys are equal all the same
\* ("a" and "b-c", "a-b" and "c")
C8_Witness ==
    /\ grpPc = "done"
    /\ Len(grpRuns) >= 1
    /\ Len(grpYielded) >= 2
    /\ \E g \in 1..Len(grpYielded) :
          \E m, n \in 1..Len(grpYielded[g].subset) :
              /\ m < n
              /\ \E l \in 1..Len(LevelList(parent_level)) :
                    AncestorName(grpYielded[g].subset[m], LevelList(parent_level)[l])
                        # AncestorName(grpYielded[g].subset[n], LevelList(parent_level)[l])

---------------------------------------------------------------------------
(* The record and its frame: TextData, pack_pb_stream.  Bytes are 0..255.  *)

RECURSIVE Concat(_)
\* the concatenation of a sequence of byte strings
Concat(parts) == IF parts = <<>> THEN <<>> ELSE Head(parts) \o Concat(Tail(parts))

\* a base-128 varint, least significant group first
RECURSIVE Varint(_)
Varint(n) == IF n < 128 THEN <<n>> ELSE <<(n % 128) + 128>> \o Varint(n \div 128)

\* a length-delimited field: key (field number, wire type 2), length, content
LenDelim(field, content) == <<field * 8 + 2>> \o Varint(Len(content)) \o content

\* a string field is left out when empty
StrField(field, str) == IF str = <<>> THEN <<>> ELSE LenDelim(field, str)

\* Semantics { values: [int] }, the values packed
SerSemantics(sem) ==
    StrField(1, Concat([i \in 1..Len(sem.values) |-> Varint(sem.values[i])]))

\* Sentence { text: string, phones: [string], semantics: [Semantics] }
SerSentence(sen) ==
    StrField(1, sen.text)
    \o Concat([i \in 1..Len(sen.phones) |-> LenDelim(2, sen.phones[i])])
    \o Concat([i \in 1..Len(sen.semantics) |-> LenDelim(3, SerSemantics(sen.semantics[i]))])

\* Record { source: string, name: string, languages: [string], sentences: [Sentence] }
SerTextData(td) ==
    StrField(1, td.source)
    \o StrField(2, td.name)
    \o Concat([i \in 1..Len(td.languages) |-> LenDelim(3, td.languages[i])])
    \o Concat([i \in 1..Len(td.sentences) |-> LenDelim(4, SerSentence(td.sentences[i]))])

\* an unsigned 32-bit length, little-endian
LE32(n) == <<n % 256, (n \div 256) % 256, (n \div 65536) % 256, (n \div 16777216) % 256>>

\* a frame: [4-byte little-endian length L][L bytes of serialized record]
pack_pb_stream(td) == LE32(Len(SerTextData(td))) \o SerTextData(td)

---------------------------------------------------------------------------
(* run_task, lines 72-129 *)

\* A member descriptor together with what the file system holds at its path:
\*   isTuple    a manifest member (file, text, languages); else a tree member
\*   text, tags the manifest line's text and language tags
\*   npy        the feature file file.with_suffix(".npy"): whether it exists,
\*              whether np.load reads it, the array's dimensions and content
\*   txt        the sidecar file.with_suffix(extension): whether it exists,
\*              its content
NoNpy == [exists |-> FALSE, loads |-> FALSE, ndim |-> 0, data |-> <<>>]
BadNpy == [exists |-> TRUE, loads |-> FALSE, ndim |-> 0, data |-> <<>>]
Array(ndim, data) == [exists |-> TRUE, loads |-> TRUE, ndim |-> ndim, data |-> data]
NoTxt == [exists |-> FALSE, content |-> <<>>]
Txt(content) == [exists |-> TRUE, content |-> content]

TreeMember(file, npy, txt) ==
    [isTuple |-> FALSE, file |-> file, text |-> <<>>, tags |-> <<>>, npy |-> npy, txt |-> txt]
TupleMember(file, text, tags, npy) ==
    [isTuple |-> TRUE, file |-> file, text |-> text, tags |-> tags, npy |-> npy, txt |-> NoTxt]

\* The phonemizer is external.  It raises on a text holding "q" (113); else
\* it gives one phone per non-blank character, which depends on the
\* character and on the whole language order.
G2PRaises(text, order) == \E i \in 1..Len(text) : text[i] = 113
G2P(text, order) ==
    LET letters == SelectSeq(text, LAMBDA c : ~IsSpace(c))
    IN  [i \in 1..Len(letters) |-> Concat(order) \o <<letters[i]>>]

\* the rebinding of lines 78-79 left out
LanguagesOfGroup(member, langs) == langs

\* lines 78-79: a manifest member rebinds `languages`
LanguagesAfter(member, langs) == IF member.isTuple THEN member.tags ELSE langs

\* lines 84-86
SkipsNoNpy(member) == ~member.npy.exists

\* lines 88-93
SkipsNoTxt(member) == ~member.isTuple /\ ~member.txt.exists

\* lines 88-101
TextOf(member) ==
    Clean(IF member.isTuple THEN member.text ELSE Strip(member.txt.content))

\* lines 103-108: the exceptions the try block catches
SkipsParseError(member, langs) ==
    G2PRaises(TextOf(member), LanguagesAfter(member, langs)) \/ ~member.npy.loads

\* lines 110-119: iterating a 0-d array's tolist(), or building a Semantics
\* from anything but a list of integers (a row of a 2-d array), raises
\* TypeError outside the try block
RaisesTypeError(member) == member.npy.ndim # 2

\* lines 113-119
SentenceOf(member, langs) ==
    [text |-> TextOf(member),
     phones |-> G2P(TextOf(member), LanguagesAfter(member, langs)),
     semantics |-> [r \in 1..Len(member.npy.data) |-> [values |-> member.npy.data[r]]]]

\* one iteration of the loop of lines 77-119: "skip", "append" or "raise"
MemberOutcome(member, langs) ==
    IF SkipsNoNpy(member) \/ SkipsNoTxt(member) \/ SkipsParseError(member, langs)
    THEN "skip"
    ELSE IF RaisesTypeError(member) THEN "raise" ELSE "append"

\* lines 122-129
TextData(source, name, langs, sens) ==
    [source |-> source, name |-> name, languages |-> langs, sentences |-> sens]

\* run_task as a whole: [raised |-> TRUE] or the returned frame and its record
RECURSIVE RunLoop(_, _, _, _)
RunLoop(t, idx, langs, sens) ==
    IF idx = Len(t.subset)
    THEN [raised |-> FALSE, record |-> TextData(t.source, t.name, langs, sens)]
    ELSE LET member == t.subset[idx + 1]
             outcome == MemberOutcome(member, langs)
         IN  IF outcome = "raise"
             THEN [raised |-> TRUE, record |-> TextData(t.source, t.name, <<>>, <<>>)]
             ELSE RunLoop(t, idx + 1, LanguagesAfter(member, langs),
                          IF outcome = "append"
                          THEN Append(sens, SentenceOf(member, langs))
                          ELSE sens)

run_task(t) == RunLoop(t, 0, t.languages, <<>>)

---------------------------------------------------------------------------
(* Group discovery in manifest mode: task_generator_filelist, lines 62-69 *)

\* lines 63-65: grouped_files, from the lines (filename, speaker, languages, text)
RECURSIVE GroupLines(_, _)
GroupLines(lines, grouped) ==
    IF lines = <<>> THEN grouped
    ELSE GroupLines(Tail(lines),
                    GroupAppend(grouped, Head(lines).speaker,
                                TupleMember(Head(lines).filename, Head(lines).text,
                                            Head(lines).languages, Head(lines).npy)))

\* lines 68-69: every group is yielded with the `languages` the loop of line
\* 64 left behind, those of the last line
task_generator_filelist(lines) ==
    LET grouped == GroupLines(lines, <<>>)
    IN  [g \in 1..Len(grouped) |->
            [name |-> grouped[g].name, subset |-> grouped[g].subset,
             source |-> <<102, 105, 108, 101, 108, 105, 115, 116>>,
             languages |-> lines[Len(lines)].languages,
             extension |-> <<>>]]

---------------------------------------------------------------------------
(* SpecTask: run_task on one task, one member at a time *)

En == <<101, 110>>
Zh == <<122, 104>>

ArrayA == Array(2, <<<<1, 2>>, <<3, 4>>>>)
ArrayB == Array(2, <<<<5, 300>>>>)
Array1d == Array(1, <<1, 2>>)

\* the text "a {x}"
TextAX == <<97, Space, LBrace, 120, RBrace>>

\* the members of a tree group: rglob found each one's feature file
TreeMembers ==
    { TreeMember(1, ArrayA, Txt(TextAX)),
      TreeMember(2, ArrayB, Txt(<<98>>)),
      TreeMember(3, ArrayA, NoTxt),
      TreeMember(4, ArrayA, Txt(<<113>>)),
      TreeMember(5, BadNpy, Txt(<<98>>)),
      TreeMember(6, Array1d, Txt(<<98>>)) }

TreeTasks ==
    {[name |-> <<97>>, subset |-> sub, source |-> <<100, 115>>, languages |-> langs,
      extension |-> <<46, 108, 97, 98>>] :
        sub \in SeqsUpTo(TreeMembers, MaxMembers) \ {<<>>}, langs \in {<<En>>, <<Zh, En>>}}

\* manifest lines: filename, speaker, languages, text, and the feature file
\* the file system holds for the filename
Line(filename, speaker, langs, text, npy) ==
    [filename |-> filename, speaker |-> speaker, languages |-> langs, text |-> text,
     npy |-> npy]

ManifestLines ==
    {Line(m[1], spk, m[2], m[3], m[4]) :
        m \in { <<1, <<En>>, TextAX, ArrayA>>,
                <<2, <<Zh, En>>, <<98>>, ArrayB>>,
                <<3, <<Zh>>, <<98>>, NoNpy>>,
                <<4, <<En>>, <<113>>, ArrayA>>,
                <<5, <<En, Zh>>, <<98>>, Array1d>> },
        spk \in {<<115, 49>>, <<115, 50>>}}

Manifests == SeqsUpTo(ManifestLines, MaxLines) \ {<<>>}

ManifestTasks ==
    UNION {{task_generator_filelist(m)[g] : g \in 1..Len(task_generator_filelist(m))} :
              m \in Manifests}

TskInit ==
    /\ tskPc = "loop"
    /\ task \in TreeTasks \cup ManifestTasks
    /\ tskIdx = 0
    /\ languages = task.languages
    /\ sentences = <<>>
    /\ tskResult = <<>>
    /\ SanIdle /\ GrpIdle /\ StrIdle /\ RunIdle /\ dataset_fp = <<>>

TskMember == task.subset[tskIdx + 1]

TskAdvance ==
    /\ tskIdx' = tskIdx + 1
    /\ languages' = LanguagesAfter(TskMember, languages)
    /\ UNCHANGED <<tskPc, task, tskResult, sanVars, grpVars, strVars, runVars>>

\* lines 83-86
TskSkipNoNpy ==
    /\ tskPc = "loop" /\ tskIdx < Len(task.subset)
    /\ SkipsNoNpy(TskMember)
    /\ UNCHANGED sentences
    /\ TskAdvance

\* lines 88-93
TskSkipNoTxt ==
    /\ tskPc = "loop" /\ tskIdx < Len(task.subset)
    /\ ~SkipsNoNpy(TskMember)
    /\ SkipsNoTxt(TskMember)
    /\ UNCHANGED sentences
    /\ TskAdvance

\* lines 103-108
TskSkipParseError ==
    /\ tskPc = "loop" /\ tskIdx < Len(task.subset)
    /\ ~SkipsNoNpy(TskMember) /\ ~SkipsNoTxt(TskMember)
    /\ SkipsParseError(TskMember, languages)
    /\ UNCHANGED sentences
    /\ TskAdvance

\* the sentence put in front of the list
TskPrepend ==
    /\ tskPc = "loop" /\ tskIdx < Len(task.subset)
    /\ MemberOutcome(TskMember, languages) = "append"
    /\ sentences' = <<SentenceOf(TskMember, languages)>> \o sentences
    /\ TskAdvance

\* lines 110-119
TskAppend ==
    /\ tskPc = "loop" /\ tskIdx < Len(task.subset)
    /\ MemberOutcome(TskMember, languages) = "append"
    /\ sentences' = Append(sentences, SentenceOf(TskMember, languages))
    /\ TskAdvance

\* lines 110-119: the TypeError leaves run_task
TskRaise ==
    /\ tskPc = "loop" /\ tskIdx < Len(task.subset)
    /\ MemberOutcome(TskMember, languages) = "raise"
    /\ tskPc' = "raised"
    /\ languages' = LanguagesAfter(TskMember, languages)
    /\ UNCHANGED <<task, tskIdx, sentences, tskResult, sanVars, grpVars, strVars, runVars>>

\* lines 122-129
TskReturn ==
    /\ tskPc = "loop" /\ tskIdx = Len(task.subset)
    /\ tskResult' = pack_pb_stream(TextData(task.source, task.name, languages, sentences))
    /\ tskPc' = "returned"
    /\ UNCHANGED <<task, tskIdx, languages, sentences, sanVars, grpVars, strVars, runVars>>

TskNext ==
    TskSkipNoNpy \/ TskSkipNoTxt \/ TskSkipParseError \/ TskAppend \/ TskRaise \/ TskReturn

SpecTask == TskInit /\ [][TskNext]_vars

\* what the claims call a member's failure: a missing feature file, a missing
\* sidecar text, a phonemizer error, an unloadable feature array
TagsFor(i) == IF task.subset[i].isTuple THEN task.subset[i].tags ELSE task.languages

RawText(m) == IF m.isTuple THEN m.text ELSE Strip(m.txt.content)

Fails(i) ==
    LET m == task.subset[i]
    IN  \/ ~m.npy.exists
        \/ ~m.isTuple /\ ~m.txt.exists
        \/ G2PRaises(Clean(RawText(m)), TagsFor(i))
        \/ ~m.npy.loads

\* a loadable array that is not two-dimensional: the malformed feature array
Malformed(i) == task.subset[i].npy.loads /\ task.subset[i].npy.ndim # 2

Kept(n) == {i \in 1..n : ~Fails(i)}

\* the j-th member, in enumeration order, among the first n that did not fail
NthKept(j, n) == CHOOSE i \in Kept(n) : Cardinality({k \in Kept(n) : k <= i}) = j

\* C1: no failure of a member makes run_task raise; run_task returns a
\* record with one sentence for each member that did not fail (a malformed
\* array being a failure of its member).
C1_MemberFailureOnlySkips ==
    /\ tskPc # "raised"
    /\ tskPc = "returned" =>
          Len(sentences) = Cardinality({i \in 1..Len(task.subset) : ~Fails(i) /\ ~Malformed(i)})

\* C7: the sentence list is the list, in enumeration order, of the members
\* handled so far that were not skipped, one Sentence each: its text the
\* cleaned text, its phones the phonemizer's, one Semantics per array row in
\* row order; the returned record holds that list.
C7_SentencesFollowMembers ==
    tskPc \in {"loop", "returned"} =>
        /\ Len(sentences) = Cardinality(Kept(tskIdx))
        /\ \A j \in 1..Len(sentences) :
              LET m == task.subset[NthKept(j, tskIdx)]
              IN  /\ sentences[j].text = Clean(RawText(m))
                  /\ sentences[j].phones = G2P(Clean(RawText(m)), TagsFor(NthKept(j, tskIdx)))
                  /\ Len(sentences[j].semantics) = Len(m.npy.data)
                  /\ \A r \in 1..Len(m.npy.data) : sentences[j].semantics[r].values = m.npy.data[r]
        /\ tskPc = "returned" =>
              /\ tskIdx = Len(task.subset)
              /\ tskResult = pack_pb_stream(TextData(task.source, task.name, languages, sentences))

\* a record of two different sentences from a group of three members, the
\* member between the two kept ones skipped
C7_Witness ==
    /\ tskPc = "returned"
    /\ Len(task.subset) = 3
    /\ Kept(3) = {1, 3}
    /\ Len(sentences) = 2
    /\ sentences[1] # sentences[2]
    /\ Len(sentences[1].semantics) = 2

\* C10: in manifest mode each sentence's phones are the phonemizer's for the
\* language tags of the member's own manifest line, and the returned record's
\* languages are the tags of the last member of the group, skipped or not,
\* whatever tags the generator attached to the group.
C10_ManifestLanguages ==
    (tskPc \in {"loop", "returned"} /\ task.subset[1].isTuple) =>
        /\ \A j \in 1..Len(sentences) :
              sentences[j].phones =
                  G2P(sentences[j].text, task.subset[NthKept(j, tskIdx)].tags)
        /\ tskPc = "returned" =>
              tskResult = pack_pb_stream(TextData(task.source, task.name,
                                                  task.subset[Len(task.subset)].tags,
                                                  sentences))

\* a manifest group was packed whose last member was skipped and carries other
\* tags than the manifest's last line, which belongs to another group; some
\* sentence of the record was phonemized with tags that are neither
C10_Witness ==
    /\ tskPc = "returned"
    /\ task.subset[1].isTuple
    /\ Fails(Len(task.subset))
    /\ task.subset[Len(task.subset)].tags # task.languages
    /\ \E j \in 1..Len(sentences) :
          /\ sentences[j].phones # <<>>
          /\ sentences[j].phones # G2P(sentences[j].text, task.languages)
          /\ sentences[j].phones # G2P(sentences[j].text, task.subset[Len(task.subset)].tags)

---------------------------------------------------------------------------
(* Reading the stream back: the reader of the frame format *)

\* the varint at buf[pos]: its value and the position after it
RECURSIVE DecodeVarint(_, _)
DecodeVarint(buf, pos) ==
    IF buf[pos] < 128 THEN [val |-> buf[pos], next |-> pos + 1]
    ELSE LET rest == DecodeVarint(buf, pos + 1)
         IN  [val |-> (buf[pos] - 128) + 128 * rest.val, next |-> rest.next]

\* the length-delimited fields of a message, in order: [field, content]
RECURSIVE ParseFields(_, _)
ParseFields(buf, pos) ==
    IF pos > Len(buf) THEN <<>>
    ELSE LET len == DecodeVarint(buf, pos + 1)
         IN  <<[field |-> (buf[pos] - 2) \div 8,
                content |-> SubSeq(buf, len.next, len.next + len.val - 1)]>>
             \o ParseFields(buf, len.next + len.val)

FieldsOf(buf, field) ==
    LET all == SelectSeq(ParseFields(buf, 1), LAMBDA f : f.field = field)
    IN  [i \in 1..Len(all) |-> all[i].content]

\* a string field: the last occurrence, or the empty string
StrOf(buf, field) ==
    IF FieldsOf(buf, field) = <<>> THEN <<>>
    ELSE FieldsOf(buf, field)[Len(FieldsOf(buf, field))]

RECURSIVE Unpack(_, _)
Unpack(buf, pos) ==
    IF pos > Len(buf) THEN <<>>
    ELSE <<DecodeVarint(buf, pos).val>> \o Unpack(buf, DecodeVarint(buf, pos).next)

ParseSemantics(buf) == [values |-> Unpack(StrOf(buf, 1), 1)]

ParseSentence(buf) ==
    [text |-> StrOf(buf, 1),
     phones |-> FieldsOf(buf, 2),
     semantics |-> [i \in 1..Len(FieldsOf(buf, 3)) |-> ParseSemantics(FieldsOf(buf, 3)[i])]]

ParseTextData(buf) ==
    [source |-> StrOf(buf, 1),
     name |-> StrOf(buf, 2),
     languages |-> FieldsOf(buf, 3),
     sentences |-> [i \in 1..Len(FieldsOf(buf, 4)) |-> ParseSentence(FieldsOf(buf, 4)[i])]]

\* the 4 header bytes at pos, as an unsigned little-endian length
HeaderAt(fp, pos) ==
    fp[pos] + 256 * fp[pos + 1] + 65536 * fp[pos + 2] + 16777216 * fp[pos + 3]

\* a whole frame lies at pos: 4 header bytes and the L payload bytes they announce
FrameAt(fp, pos) == pos + 3 <= Len(fp) /\ pos + 3 + HeaderAt(fp, pos) <= Len(fp)

PayloadAt(fp, pos) == SubSeq(fp, pos + 4, pos + 3 + HeaderAt(fp, pos))

\* the payloads of the frames read sequentially from pos, until a short read
RECURSIVE ReadFrames(_, _)
ReadFrames(fp, pos) ==
    IF FrameAt(fp, pos)
    THEN <<PayloadAt(fp, pos)>> \o ReadFrames(fp, pos + 4 + HeaderAt(fp, pos))
    ELSE <<>>

---------------------------------------------------------------------------
(* The driver's write, main line 149 *)

\* the write lands at the start of the file
WriteAtStart(fp, result) == result \o fp

\* dataset_fp.write(result): the bytes are appended
Write(fp, result) == fp \o result

---------------------------------------------------------------------------
(* SpecStream: frames written by the driver, a run cut short anywhere, and *)
(* the file read back                                                      *)

\* a record whose payload is longer than 255 bytes
BigRecord ==
    TextData(<<100, 115>>, <<97>>, <<En>>,
             <<[text |-> <<98>>, phones |-> G2P(<<98>>, <<En>>),
                semantics |-> [r \in 1..3 |-> [values |-> [i \in 1..45 |-> 299 + r]]]]>>)

StreamRecords ==
    { TextData(<<>>, <<>>, <<>>, <<>>),
      TextData(<<102, 105, 108, 101, 108, 105, 115, 116>>, <<115, 49>>, <<Zh>>, <<>>),
      run_task([name |-> <<97>>, source |-> <<100, 115>>, languages |-> <<Zh, En>>,
                extension |-> <<46, 108, 97, 98>>,
                subset |-> <<TreeMember(1, ArrayA, Txt(TextAX)),
                             TreeMember(2, ArrayB, Txt(<<98>>))>>]).record,
      BigRecord }

StrInit ==
    /\ strPc = "writing"
    /\ strResults \in SeqsUpTo(StreamRecords, MaxRecords)
    /\ strWhole = <<>>
    /\ dataset_fp = <<>>
    /\ rdPos = 1
    /\ rdRecords = <<>>
    /\ SanIdle /\ GrpIdle /\ TskIdle /\ RunIdle

\* lines 148-149: the next result is packed by a worker and written whole
StrWrite ==
    /\ strPc = "writing"
    /\ strResults # <<>>
    /\ dataset_fp' = Write(dataset_fp, pack_pb_stream(Head(strResults)))
    /\ strWhole' = Append(strWhole, Head(strResults))
    /\ strResults' = Tail(strResults)
    /\ UNCHANGED <<strPc, rdPos, rdRecords, sanVars, grpVars, tskVars, runVars>>

\* the process is killed: between two writes (n = 0) or inside one, when only
\* the first n bytes of the frame have reached the file
StrInterrupt ==
    /\ strPc = "writing"
    /\ strResults # <<>>
    /\ \E n \in 0..(Len(pack_pb_stream(Head(strResults))) - 1) :
          dataset_fp' = Write(dataset_fp, SubSeq(pack_pb_stream(Head(strResults)), 1, n))
    /\ strPc' = "reading"
    /\ UNCHANGED <<strResults, strWhole, rdPos, rdRecords, sanVars, grpVars, tskVars, runVars>>

\* line 151: every result is written
StrClose ==
    /\ strPc = "writing"
    /\ strResults = <<>>
    /\ strPc' = "reading"
    /\ UNCHANGED <<dataset_fp, strResults, strWhole, rdPos, rdRecords, sanVars, grpVars, tskVars, runVars>>

\* the reader: 4 bytes of length, that many bytes of payload, deserialize
RdFrame ==
    /\ strPc = "reading"
    /\ FrameAt(dataset_fp, rdPos)
    /\ rdRecords' = Append(rdRecords, ParseTextData(PayloadAt(dataset_fp, rdPos)))
    /\ rdPos' = rdPos + 4 + HeaderAt(dataset_fp, rdPos)
    /\ UNCHANGED <<strPc, dataset_fp, strResults, strWhole, sanVars, grpVars, tskVars, runVars>>

\* the reader: a short header or a short payload is the end of the stream
RdEnd ==
    /\ strPc = "reading"
    /\ ~FrameAt(dataset_fp, rdPos)
    /\ strPc' = "eof"
    /\ UNCHANGED <<dataset_fp, strResults, strWhole, rdPos, rdRecords, sanVars, grpVars, tskVars, runVars>>

StrNext == StrWrite \/ StrInterrupt \/ StrClose \/ RdFrame \/ RdEnd

SpecStream == StrInit /\ [][StrNext]_vars

\* C6: reading the file sequentially, however the run ended, yields exactly
\* the records whose frames were written whole, in write order and field for
\* field as packed; a run that wrote all N records yields N records.
C6_ReadBackWholeFrames ==
    /\ strPc = "reading" =>
          /\ rdPos <= Len(dataset_fp) + 1
          /\ Len(rdRecords) <= Len(strWhole)
          /\ \A i \in 1..Len(rdRecords) : rdRecords[i] = strWhole[i]
    /\ strPc = "eof" =>
          /\ rdRecords = strWhole
          /\ strResults = <<>> => rdPos = Len(dataset_fp) + 1

\* a run killed inside the payload of a frame longer than 255 bytes, after it
\* wrote a whole frame: the reader gave that one record and stopped
C6_Witness ==
    /\ strPc = "eof"
    /\ Len(rdRecords) = 1
    /\ rdRecords[1].sentences # <<>>
    /\ strResults # <<>>
    /\ Len(dataset_fp) - rdPos + 1 > 4
    /\ dataset_fp[rdPos + 1] > 0

---------------------------------------------------------------------------
(* The run: main, lines 139-151, with the pool of line 147 *)

\* the feature files of the rows' trees
PathF == <<(<<114>>), <<97>>, <<98, Dash, 99>>, <<102>>>>
PathH == <<(<<114>>), <<97>>, <<99>>, <<104>>>>
PathE == <<(<<114>>), <<101>>>>

\* a row of config["datasets"]; `tree` holds the members rglob finds
Row(tree, level) ==
    [tree |-> tree, source |-> <<100, 115>>, languages |-> <<Zh, En>>,
     extension |-> <<46, 108, 97, 98>>, group_parent_level |-> level]

TreeRows ==
    { Row({TreeMember(PathF, ArrayA, Txt(TextAX)), TreeMember(PathH, ArrayB, Txt(<<98>>))},
          [isInt |-> TRUE, val |-> 1]),
      Row({TreeMember(PathH, ArrayA, NoTxt)}, [isInt |-> FALSE, val |-> <<2>>]),
      Row({TreeMember(PathH, ArrayA, Txt(<<98>>)), TreeMember(PathE, ArrayA, Txt(<<98>>))},
          [isInt |-> FALSE, val |-> <<2, 1>>]),
      Row({TreeMember(PathH, Array1d, Txt(<<98>>))}, [isInt |-> TRUE, val |-> 1]) }

RunLines ==
    { Line(1, <<115, 49>>, <<En>>, TextAX, ArrayA),
      Line(3, <<115, 50>>, <<Zh>>, <<98>>, NoNpy),
      Line(5, <<115, 49>>, <<En, Zh>>, <<98>>, Array1d) }

\* the command line: --config (rows) or --filelist (lines)
Configs ==
    {[filelist |-> FALSE, rows |-> rows, lines |-> <<>>] : rows \in SeqsUpTo(TreeRows, MaxRows)}
    \cup {[filelist |-> TRUE, rows |-> <<>>, lines |-> lines] :
             lines \in SeqsUpTo(RunLines, MaxLines)}

\* lines 39-59 for one row, given the order rglob listed the files in: the
\* tasks the row yields, or the IndexError of line 52
RowTasks(row, listing) ==
    LET grouped == GroupAll(Sorted(listing), LevelList(row.group_parent_level), <<>>)
        MemberAt(file) == CHOOSE m \in row.tree : m.file = file
    IN  [raised |-> grouped.raised,
         tasks |-> [g \in 1..Len(grouped.items) |->
                      [name |-> grouped.items[g].name,
                       subset |-> [i \in 1..Len(grouped.items[g].subset) |->
                                     MemberAt(grouped.items[g].subset[i])],
                       source |-> row.source,
                       languages |-> row.languages,
                       extension |-> row.extension]]]

\* how many sources of groups the generator has: the rows, or the manifest
Sources(cfg) == IF cfg.filelist THEN 1 ELSE Len(cfg.rows)

\* what a worker hands back for a job: the frame, or the exception
ResultOf(job) ==
    IF job.reraise \/ run_task(job.task).raised
    THEN [id |-> job.id, ok |-> FALSE, frame |-> <<>>]
    ELSE [id |-> job.id, ok |-> TRUE, frame |-> pack_pb_stream(run_task(job.task).record)]

\* Pool(num_workers): a worker process runs one task at a time
AnyCanTake(busy, workers) == TRUE

CanTake(busy, workers) == Cardinality(busy) < workers

\* a result slot that holds only the latest result
DeliverLatest(queue, result) == <<result>>

\* imap_unordered: a completed result joins the results the driver takes, in
\* completion order
Deliver(queue, result) == Append(queue, result)

\* line 140 has opened the output, lines 141-147 made the generator and the pool
Init ==
    /\ pc = "running"
    /\ config \in Configs
    /\ num_workers \in 1..MaxWorkers
    /\ genRow = 0
    /\ genBuf = <<>>
    /\ feeding = TRUE
    /\ emitted = <<>>
    /\ inqueue = <<>>
    /\ running = {}
    /\ outqueue = <<>>
    /\ dataset_fp = <<>>
    /\ SanIdle /\ GrpIdle /\ TskIdle /\ StrIdle

idleVars == <<sanVars, grpVars, tskVars, rdrVars>>

\* task_generator_yaml, lines 26-57: the generator groups its next row
GenGroupRow ==
    /\ pc = "running" /\ feeding
    /\ ~config.filelist
    /\ genBuf = <<>> /\ genRow < Len(config.rows)
    /\ \E listing \in Enumerations({m.file : m \in config.rows[genRow + 1].tree}) :
          /\ ~RowTasks(config.rows[genRow + 1], listing).raised
          /\ genBuf' = RowTasks(config.rows[genRow + 1], listing).tasks
    /\ genRow' = genRow + 1
    /\ UNCHANGED <<pc, config, num_workers, feeding, emitted, inqueue, running, outqueue,
                   dataset_fp, idleVars>>

\* line 52 raises IndexError inside the generator; the pool hands the
\* exception on as the place of the task that was asked for
GenIndexError ==
    /\ pc = "running" /\ feeding
    /\ ~config.filelist
    /\ genBuf = <<>> /\ genRow < Len(config.rows)
    /\ \E listing \in Enumerations({m.file : m \in config.rows[genRow + 1].tree}) :
          RowTasks(config.rows[genRow + 1], listing).raised
    /\ inqueue' = Append(inqueue, [id |-> Len(emitted) + 1, reraise |-> TRUE, task |-> <<>>])
    /\ feeding' = FALSE
    /\ UNCHANGED <<pc, config, num_workers, genRow, genBuf, emitted, running, outqueue,
                   dataset_fp, idleVars>>

\* task_generator_filelist, lines 63-67
GenGroupLines ==
    /\ pc = "running" /\ feeding
    /\ config.filelist
    /\ genRow = 0
    /\ genBuf' = (IF config.lines = <<>> THEN <<>> ELSE task_generator_filelist(config.lines))
    /\ genRow' = 1
    /\ UNCHANGED <<pc, config, num_workers, feeding, emitted, inqueue, running, outqueue,
                   dataset_fp, idleVars>>

\* lines 59 and 69, line 148: the pool takes the group the generator yields
\* and queues it as a task
FeedTask ==
    /\ pc = "running" /\ feeding
    /\ genBuf # <<>>
    /\ emitted' = Append(emitted, Head(genBuf))
    /\ inqueue' = Append(inqueue,
                         [id |-> Len(emitted) + 1, reraise |-> FALSE, task |-> Head(genBuf)])
    /\ genBuf' = Tail(genBuf)
    /\ UNCHANGED <<pc, config, num_workers, genRow, feeding, running, outqueue,
                   dataset_fp, idleVars>>

\* the generator is exhausted
FeedEnd ==
    /\ pc = "running" /\ feeding
    /\ genBuf = <<>> /\ genRow = Sources(config)
    /\ feeding' = FALSE
    /\ UNCHANGED <<pc, config, num_workers, genRow, genBuf, emitted, inqueue, running,
                   outqueue, dataset_fp, idleVars>>

\* a free worker takes the oldest queued task
WorkerTake ==
    /\ pc = "running"
    /\ inqueue # <<>>
    /\ CanTake(running, num_workers)
    /\ running' = running \cup {Head(inqueue)}
    /\ inqueue' = Tail(inqueue)
    /\ UNCHANGED <<pc, config, num_workers, genRow, genBuf, feeding, emitted, outqueue,
                   dataset_fp, idleVars>>

\* a worker ends its task: run_task returned or raised
WorkerFinish ==
    /\ pc = "running"
    /\ \E job \in running :
          /\ running' = running \ {job}
          /\ outqueue' = Deliver(outqueue, ResultOf(job))
    /\ UNCHANGED <<pc, config, num_workers, genRow, genBuf, feeding, emitted, inqueue,
                   dataset_fp, idleVars>>

\* lines 148-149: the driver takes the next completed result and writes it
DriverWrite ==
    /\ pc = "running"
    /\ outqueue # <<>> /\ Head(outqueue).ok
    /\ dataset_fp' = Write(dataset_fp, Head(outqueue).frame)
    /\ outqueue' = Tail(outqueue)
    /\ UNCHANGED <<pc, config, num_workers, genRow, genBuf, feeding, emitted, inqueue,
                   running, idleVars>>

\* line 148: the next completed result is an exception, which the iterator
\* raises in the driver; leaving the with block terminates the pool
DriverRaise ==
    /\ pc = "running"
    /\ outqueue # <<>> /\ ~Head(outqueue).ok
    /\ pc' = "failed"
    /\ UNCHANGED <<config, num_workers, genRow, genBuf, feeding, emitted, inqueue, running,
                   outqueue, dataset_fp, idleVars>>

\* lines 148-151: every task's result was taken; the output is closed
DriverDone ==
    /\ pc = "running"
    /\ ~feeding /\ inqueue = <<>> /\ running = {} /\ outqueue = <<>>
    /\ pc' = "done"
    /\ UNCHANGED <<config, num_workers, genRow, genBuf, feeding, emitted, inqueue, running,
                   outqueue, dataset_fp, idleVars>>

Next ==
    \/ GenGroupRow \/ GenIndexError \/ GenGroupLines \/ FeedTask \/ FeedEnd
    \/ WorkerTake \/ WorkerFinish
    \/ DriverWrite \/ DriverRaise \/ DriverDone

Spec == Init /\ [][Next]_vars

\* the bag of the elements of a sequence
BagOf(seq) ==
    [x \in {seq[i] : i \in 1..Len(seq)} |-> Cardinality({i \in 1..Len(seq) : seq[i] = x})]

RECURSIVE SumLen(_)
SumLen(payloads) ==
    IF payloads = <<>> THEN 0 ELSE 4 + Len(Head(payloads)) + SumLen(Tail(payloads))

\* the payloads of the frames in the output file
Frames == ReadFrames(dataset_fp, 1)

\* the groups group discovery is to yield for a configuration: per row, the
\* distinct keys of its files; for a manifest, the distinct speakers
RECURSIVE CountKeys(_)
CountKeys(rows) ==
    IF rows = <<>> THEN 0
    ELSE Cardinality({KeyOf(m.file, LevelList(Head(rows).group_parent_level)) :
                         m \in Head(rows).tree})
         + CountKeys(Tail(rows))

NumGroups(cfg) ==
    IF cfg.filelist
    THEN Cardinality({cfg.lines[i].speaker : i \in 1..Len(cfg.lines)})
    ELSE CountKeys(cfg.rows)

\* the payload a group's record serializes to
PayloadOf(t) == SerTextData(run_task(t).record)

\* an ancestor position of some row exceeds the depth of one of its files
BadLevel(cfg) ==
    /\ ~cfg.filelist
    /\ \E r \in 1..Len(cfg.rows) :
          \E m \in cfg.rows[r].tree :
              \E n \in 1..Len(LevelList(cfg.rows[r].group_parent_level)) :
                  LevelList(cfg.rows[r].group_parent_level)[n] > Len(m.file) - 1

\* C4: the output is at all times a concatenation of whole frames, each the
\* frame of a different group the generator yielded; when the run completes
\* there is exactly one frame per group of the configuration, each yielded
\* group's record among them, empty records included (a run completes only
\* when every ancestor position is within the depth of every file, which is
\* when the groups of the configuration are defined).
C4_OneWholeFramePerGroup ==
    /\ SumLen(Frames) = Len(dataset_fp)
    /\ BagOf(Frames) \sqsubseteq BagOf([i \in 1..Len(emitted) |-> PayloadOf(emitted[i])])
    /\ pc = "done" =>
          /\ BagOf(Frames) = BagOf([i \in 1..Len(emitted) |-> PayloadOf(emitted[i])])
          /\ ~BadLevel(config)
          /\ Len(Frames) = NumGroups(config)

\* a run of two workers completed with three frames or more, written in
\* another order than the groups were yielded, one frame's record without
\* sentences
C4_Witness ==
    /\ pc = "done"
    /\ num_workers = 2
    /\ Len(Frames) >= 3
    /\ Frames[1] # PayloadOf(emitted[1])
    /\ \E i \in 1..Len(Frames) : ParseTextData(Frames[i]).sentences = <<>>

\* C2: with an ancestor position beyond the depth of any file of any row, no
\* group of any row is ever yielded and nothing is ever written.
C2_BadLevelFailsBeforeAnyGroup ==
    BadLevel(config) => (emitted = <<>> /\ dataset_fp = <<>> /\ pc # "done")

\* what the workers hand back for a configuration, in the order the tasks
\* are submitted, up to an exception of the generator
RECURSIVE SubmittedResults(_)
SubmittedResults(rows) ==
    IF rows = <<>> THEN <<>>
    ELSE LET rt == RowTasks(Head(rows),
                            CHOOSE l \in Enumerations({m.file : m \in Head(rows).tree}) : TRUE)
         IN  IF rt.raised THEN <<[id |-> 0, ok |-> FALSE, frame |-> <<>>]>>
             ELSE [i \in 1..Len(rt.tasks) |->
                     ResultOf([id |-> i, reraise |-> FALSE, task |-> rt.tasks[i]])]
                  \o SubmittedResults(Tail(rows))

\* the frames a single worker's run writes: one worker completes the tasks in
\* the order submitted, and the driver stops at the first exception
RECURSIVE UntilException(_)
UntilException(results) ==
    IF results = <<>> \/ ~Head(results).ok THEN <<>>
    ELSE <<Head(results).frame>> \o UntilException(Tail(results))

OneWorkerFrames(cfg) ==
    UntilException(
        IF cfg.filelist
        THEN IF cfg.lines = <<>> THEN <<>>
             ELSE [i \in 1..Len(task_generator_filelist(cfg.lines)) |->
                     ResultOf([id |-> i, reraise |-> FALSE,
                               task |-> task_generator_filelist(cfg.lines)[i]])]
        ELSE SubmittedResults(cfg.rows))

\* C5: a run that has ended, whatever its pool size and the order its workers
\* completed in, has written the same multiset of records as the run with one
\* worker on the same input.
C5_SameRecordsAsOneWorker ==
    pc \in {"done", "failed"} =>
        BagOf([i \in 1..Len(Frames) |-> LE32(Len(Frames[i])) \o Frames[i]])
            = BagOf(OneWorkerFrames(config))

\* groups taken from group discovery whose result is not written
Outstanding == Len(emitted) - Len(Frames)

\* C9 as stated: at most num_workers groups are taken and not yet written.
C9_OutstandingAtMostPoolSize == Outstanding <= num_workers

\* C9 as amended: at most num_workers tasks are being run; the groups taken
\* and not yet written are exactly those waiting in the pool's task queue,
\* being run, or completed and waiting for the driver.
C9_RunningAtMostPoolSize ==
    /\ Cardinality(running) <= num_workers
    /\ pc = "running" =>
          Outstanding =
              Cardinality({i \in 1..Len(inqueue) : ~inqueue[i].reraise})
              + Cardinality({job \in running : ~job.reraise})
              + Cardinality({i \in 1..Len(outqueue) : outqueue[i].id <= Len(emitted)})

\* every worker is busy and more groups are outstanding than there are workers
C9_Witness ==
    /\ pc = "running"
    /\ num_workers = 2
    /\ Cardinality(running) = num_workers
    /\ Outstanding > num_workers

---------------------------------------------------------------------------
(* SpecSanitize: the text of one member, step by step *)

Alphabet == {97, Space, Newline, LBrace, RBrace, LAngle, RAngle}

\* "a {x} b   c", the example of the specification
ExampleText == <<97, Space, LBrace, 120, RBrace, Space, 98, Space, Space, Space, 99>>

\* a manifest text is the last field of one stripped line of the manifest: it
\* holds no newline and does not end in whitespace
SanInputs(sidecar) ==
    {t \in SeqsUpTo(Alphabet, MaxTextLen) \cup {ExampleText} :
        sidecar \/ (t = Strip(t) /\ \A i \in 1..Len(t) : t[i] # Newline)}

SanInit ==
    /\ sanPc = "resolve"
    /\ sanSidecar \in BOOLEAN
    /\ sanText \in SanInputs(sanSidecar)
    /\ GrpIdle /\ TskIdle /\ StrIdle /\ RunIdle /\ dataset_fp = <<>>

\* lines 88-96: the sidecar's content is stripped, a manifest text is taken as is
SanResolve ==
    /\ sanPc = "resolve"
    /\ sanText' = IF sanSidecar THEN Strip(sanText) ELSE sanText
    /\ sanPc' = "braces"
    /\ UNCHANGED <<sanSidecar, grpVars, tskVars, strVars, runVars>>

\* line 99
SanBraces ==
    /\ sanPc = "braces"
    /\ sanText' = SubSpan(sanText, LBrace, RBrace)
    /\ sanPc' = "angles"
    /\ UNCHANGED <<sanSidecar, grpVars, tskVars, strVars, runVars>>

\* line 100
SanAngles ==
    /\ sanPc = "angles"
    /\ sanText' = SubSpan(sanText, LAngle, RAngle)
    /\ sanPc' = "spaces"
    /\ UNCHANGED <<sanSidecar, grpVars, tskVars, strVars, runVars>>

\* line 101
SanSpaces ==
    /\ sanPc = "spaces"
    /\ sanText' = SubSpaces(sanText)
    /\ sanPc' = "clean"
    /\ UNCHANGED <<sanSidecar, grpVars, tskVars, strVars, runVars>>

SanNext == SanResolve \/ SanBraces \/ SanAngles \/ SanSpaces

SpecSanitize == SanInit /\ [][SanNext]_vars

\* a well-formed span  open ... close  (what the pattern open .*? close matches)
HasSpan(t, open, close) ==
    \E i \in 1..Len(t) : t[i] = open /\ MatchEnd(SubSeq(t, i, Len(t)), close) > 0

HasSpaceRun(t) == \E i \in 1..(Len(t) - 1) : IsSpace(t[i]) /\ IsSpace(t[i + 1])

HasEdgeSpace(t) == t # <<>> /\ (IsSpace(t[1]) \/ IsSpace(t[Len(t)]))

\* C3: the text stored in the Sentence holds no well-formed {...} or <...>
\* span, no run of more than one whitespace character and no leading or
\* trailing whitespace.
C3_SanitizedTextIsClean ==
    sanPc = "clean" =>
        /\ ~HasSpan(sanText, LBrace, RBrace)
        /\ ~HasSpan(sanText, LAngle, RAngle)
        /\ ~HasSpaceRun(sanText)
        /\ ~HasEdgeSpace(sanText)

=============================================================================
